---- MODULE Spec2Model ----
(***************************************************************************)
(* String case conversion: the standalone functions of refined_prompt.js   *)
(* (camelCase, toDotCase, kebabCase), the unvalidated toCamelCase of       *)
(* chain_prompt.js, and the chaining wrapper CaseConverter.                *)
(*                                                                         *)
(* A JavaScript string is a sequence of one-character strings.  A          *)
(* JavaScript value is a record [kind, chars]; kind is "string", "number", *)
(* "null" or "undefined".                                                  *)
(***************************************************************************)
EXTENDS Naturals, Sequences, FiniteSets

VARIABLES str, converted, kebabed, lastCall, fcall

vars == <<str, converted, kebabed, lastCall, fcall>>

\* Longest string a wrapper is constructed from.
MaxLen == 3

\* Longest string a standalone function is called on.
MaxArgLen == 4

---------------------------------------------------------------------------
\* Characters and JavaScript values

LowerLetters == {"a", "b"}
UpperLetters == {"A", "B"}
Digits == {"1"}

\* The characters input strings are drawn from.
Alphabet == {"a", "B", "1", " ", "_", ".", "-"}

RECURSIVE StringsOfLen(_)
StringsOfLen(n) ==
  IF n = 0 THEN {<< >>}
  ELSE {Append(s, c) : s \in StringsOfLen(n - 1), c \in Alphabet}

StringsUpTo(max) == UNION {StringsOfLen(n) : n \in 0..max}

Str(s) == [kind |-> "string", chars |-> s]
Num == [kind |-> "number", chars |-> << >>]
Null == [kind |-> "null", chars |-> << >>]
Undefined == [kind |-> "undefined", chars |-> << >>]

\* constructor arguments and function arguments: strings and non-strings
Values == {Str(s) : s \in StringsUpTo(MaxLen)} \cup {Num, Null, Undefined}
Args == {Str(s) : s \in StringsUpTo(MaxArgLen)} \cup {Num, Null, Undefined}

\* typeof v
TypeOf(v) == IF v.kind = "null" THEN "object" ELSE v.kind

\* c.toLowerCase() / c.toUpperCase() on one character
ToLowerChar(c) == CASE c = "A" -> "a" [] c = "B" -> "b" [] OTHER -> c
ToUpperChar(c) == CASE c = "a" -> "A" [] c = "b" -> "B" [] OTHER -> c

RECURSIVE ToLowerCase(_)
ToLowerCase(s) ==
  IF s = << >> THEN << >> ELSE <<ToLowerChar(Head(s))>> \o ToLowerCase(Tail(s))

RECURSIVE ToUpperCase(_)
ToUpperCase(s) ==
  IF s = << >> THEN << >> ELSE <<ToUpperChar(Head(s))>> \o ToUpperCase(Tail(s))

\* the regular expression classes \s, [\s_-], [\s_.-], \w, [a-z], [a-zA-Z]
Whitespace == {" "}
DelimsBasic == Whitespace \cup {"_", "-"}
DelimsKebab == Whitespace \cup {"_", ".", "-"}
WordChars == LowerLetters \cup UpperLetters \cup Digits \cup {"_"}
Letters == LowerLetters \cup UpperLetters

\* s.trim()
RECURSIVE TrimStart(_)
TrimStart(s) ==
  IF s # << >> /\ Head(s) \in Whitespace THEN TrimStart(Tail(s)) ELSE s

RECURSIVE TrimEnd(_)
TrimEnd(s) ==
  IF s # << >> /\ s[Len(s)] \in Whitespace
  THEN TrimEnd(SubSeq(s, 1, Len(s) - 1)) ELSE s

Trim(s) == TrimEnd(TrimStart(s))

\* /^[D]/.test(s)
StartsWithDelim(s, D) == s # << >> /\ Head(s) \in D

\* /[D]{2,}/.test(s)
HasDelimRun(s, D) == \E i \in 1..(Len(s) - 1) : s[i] \in D /\ s[i + 1] \in D

\* /^[a-z][a-zA-Z]*$/.test(s)
IsCamel(s) ==
  /\ s # << >>
  /\ Head(s) \in LowerLetters
  /\ \A i \in 2..Len(s) : s[i] \in Letters

RECURSIVE SkipDelims(_, _)
SkipDelims(s, D) ==
  IF s # << >> /\ Head(s) \in D THEN SkipDelims(Tail(s), D) ELSE s

\* s.replace(/[D]+/g, rep): every maximal run of D becomes one rep
RECURSIVE ReplaceRuns(_, _, _)
ReplaceRuns(s, D, rep) ==
  IF s = << >> THEN << >>
  ELSE IF Head(s) \in D THEN rep \o ReplaceRuns(SkipDelims(s, D), D, rep)
  ELSE <<Head(s)>> \o ReplaceRuns(Tail(s), D, rep)

\* s.split(' '): the sequence of words, empty words included
RECURSIVE SplitOn(_, _, _)
SplitOn(s, c, word) ==
  IF s = << >> THEN <<word>>
  ELSE IF Head(s) = c THEN <<word>> \o SplitOn(Tail(s), c, << >>)
  ELSE SplitOn(Tail(s), c, Append(word, Head(s)))

Split(s, c) == SplitOn(s, c, << >>)

\* lowerWord.charAt(0).toUpperCase() + lowerWord.slice(1)
Capitalize(w) == IF w = << >> THEN << >> ELSE <<ToUpperChar(Head(w))>> \o Tail(w)

\* words.map((word, index) => ...).join(''), from index i on
RECURSIVE CamelJoin(_, _)
CamelJoin(words, i) ==
  IF i > Len(words) THEN << >>
  ELSE (IF i = 1 THEN ToLowerCase(words[i]) ELSE Capitalize(ToLowerCase(words[i])))
       \o CamelJoin(words, i + 1)

\* str.replace(/[\s_-]+/g, ' ').split(' ') and the map/join after it
CamelWords(s) == CamelJoin(Split(ReplaceRuns(s, DelimsBasic, <<" ">>), " "), 1)

\* result.replace(/\b\w/g, l => l.toUpperCase()), from position i on
RECURSIVE TitleFrom(_, _)
TitleFrom(s, i) ==
  IF i > Len(s) THEN << >>
  ELSE (IF s[i] \in WordChars /\ (i = 1 \/ s[i - 1] \notin WordChars)
        THEN <<ToUpperChar(s[i])>> ELSE <<s[i]>>)
       \o TitleFrom(s, i + 1)

TitleCase(s) == TitleFrom(s, 1)

---------------------------------------------------------------------------
\* Outcomes of a call: a returned value or a thrown error

Return(v) == [threw |-> FALSE, msg |-> "", val |-> v]
Throw(m) == [threw |-> TRUE, msg |-> m, val |-> Undefined]

\* the options object of kebabCase: each field a value or undefined
Separators ==
  {Undefined, Str(<<"_">>), Str(<<".">>), Str(<<" ">>), Str(<<"a">>), Str(<<"-", "-">>)}
CaseOptions == {"undefined", "lower", "upper", "title", "Title"}
Options == [separator : Separators, case : CaseOptions]

\* const { separator = '-', case: caseOption = 'lower' } = options
SeparatorOf(o) == IF o.separator = Undefined THEN Str(<<"-">>) ELSE o.separator
CaseOf(o) == IF o.case = "undefined" THEN "lower" ELSE o.case

\* the switch on caseOption
ApplyCase(s, caseOption) ==
  CASE caseOption = "lower" -> ToLowerCase(s)
    [] caseOption = "upper" -> ToUpperCase(s)
    [] caseOption = "title" -> TitleCase(s)
    [] OTHER -> s

---------------------------------------------------------------------------
\* refined_prompt.js: the standalone functions

MsgNotString == "Invalid input: must be a string"
MsgNull == "Invalid input: cannot be null or undefined"
MsgEmpty == "Input must be a non-empty string"
MsgLeading == "String cannot start with a delimiter"
MsgConsecutive == "String cannot have consecutive delimiters"
MsgSeparator == "Invalid options: separator must be a single character"
MsgCase == "Invalid options: case must be lower, upper, or title"

\* camelCase without its "already camelCase" early return
camelCaseNoFastPath(v) ==
  IF TypeOf(v) # "string" THEN Throw(MsgNotString)
  ELSE IF v = Null \/ v = Undefined THEN Throw(MsgNull)
  ELSE IF Trim(v.chars) = << >> THEN Throw(MsgEmpty)
  ELSE IF StartsWithDelim(v.chars, DelimsBasic) THEN Throw(MsgLeading)
  ELSE IF HasDelimRun(v.chars, DelimsBasic) THEN Throw(MsgConsecutive)
  ELSE Return(Str(CamelWords(v.chars)))

camelCase(v) ==
  IF TypeOf(v) # "string" THEN Throw(MsgNotString)
  ELSE IF v = Null \/ v = Undefined THEN Throw(MsgNull)
  ELSE IF Trim(v.chars) = << >> THEN Throw(MsgEmpty)
  ELSE IF StartsWithDelim(v.chars, DelimsBasic) THEN Throw(MsgLeading)
  ELSE IF HasDelimRun(v.chars, DelimsBasic) THEN Throw(MsgConsecutive)
  ELSE IF IsCamel(v.chars) THEN Return(v)
  ELSE Return(Str(CamelWords(v.chars)))

toDotCase(v) ==
  IF TypeOf(v) # "string" THEN Throw(MsgNotString)
  ELSE IF v = Null \/ v = Undefined THEN Throw(MsgNull)
  ELSE IF Trim(v.chars) = << >> THEN Throw(MsgEmpty)
  ELSE IF StartsWithDelim(v.chars, DelimsBasic) THEN Throw(MsgLeading)
  ELSE IF HasDelimRun(v.chars, DelimsBasic) THEN Throw(MsgConsecutive)
  ELSE Return(Str(ToLowerCase(ReplaceRuns(v.chars, DelimsBasic, <<".">>))))

\* kebabCase with the dot left out of the class it replaces
kebabCaseDotKept(v, o) ==
  IF TypeOf(v) # "string" THEN Throw(MsgNotString)
  ELSE IF v = Null \/ v = Undefined THEN Throw(MsgNull)
  ELSE IF Trim(v.chars) = << >> THEN Throw(MsgEmpty)
  ELSE IF TypeOf(SeparatorOf(o)) # "string" \/ Len(SeparatorOf(o).chars) # 1
    THEN Throw(MsgSeparator)
  ELSE IF CaseOf(o) \notin {"lower", "upper", "title"} THEN Throw(MsgCase)
  ELSE IF StartsWithDelim(v.chars, DelimsKebab) THEN Throw(MsgLeading)
  ELSE IF HasDelimRun(v.chars, DelimsKebab) THEN Throw(MsgConsecutive)
  ELSE Return(Str(ApplyCase(ReplaceRuns(v.chars, DelimsBasic, SeparatorOf(o).chars),
                            CaseOf(o))))

kebabCase(v, o) ==
  IF TypeOf(v) # "string" THEN Throw(MsgNotString)
  ELSE IF v = Null \/ v = Undefined THEN Throw(MsgNull)
  ELSE IF Trim(v.chars) = << >> THEN Throw(MsgEmpty)
  ELSE IF TypeOf(SeparatorOf(o)) # "string" \/ Len(SeparatorOf(o).chars) # 1
    THEN Throw(MsgSeparator)
  ELSE IF CaseOf(o) \notin {"lower", "upper", "title"} THEN Throw(MsgCase)
  ELSE IF StartsWithDelim(v.chars, DelimsKebab) THEN Throw(MsgLeading)
  ELSE IF HasDelimRun(v.chars, DelimsKebab) THEN Throw(MsgConsecutive)
  ELSE Return(Str(ApplyCase(ReplaceRuns(v.chars, DelimsKebab, SeparatorOf(o).chars),
                            CaseOf(o))))

---------------------------------------------------------------------------
\* chain_prompt.js: the standalone toCamelCase, which validates nothing

MsgNotAFunction == "TypeError: str.replace is not a function"
MsgCannotRead == "TypeError: Cannot read properties of null or undefined"

toCamelCase(v) ==
  IF v = Null \/ v = Undefined THEN Throw(MsgCannotRead)
  ELSE IF TypeOf(v) # "string" THEN Throw(MsgNotAFunction)
  ELSE Return(Str(CamelWords(v.chars)))

---------------------------------------------------------------------------
\* chain_prompt.js: the private helpers of CaseConverter

MsgInputCamel == "Invalid input for camelCase"
MsgDelimsCamel == "Invalid delimiters in string for camelCase"
MsgInputKebab == "Invalid input for kebabCase"
MsgDelimsKebab == "Invalid delimiters in string for kebabCase"
MsgSeparatorOption == "Invalid separator option"
MsgCaseOption == "Invalid case option"
MsgInputDot == "Invalid input for dotCase"
MsgDelimsDot == "Invalid delimiters in string for dotCase"
MsgInputSnake == "Invalid input for snakeCase"
MsgDelimsSnake == "Invalid delimiters in string for snakeCase"

\* typeof str !== 'string' || str === null || str === undefined || str.trim() === ''
BadInput(v) ==
  TypeOf(v) # "string" \/ v = Null \/ v = Undefined \/ Trim(v.chars) = << >>

\* /^[D]/.test(str) || /[D]{2,}/.test(str)
BadDelims(v, D) == StartsWithDelim(v.chars, D) \/ HasDelimRun(v.chars, D)

\* _camelCase testing the delimiters with the class of _kebabCase
CaseConverter_camelCaseKebabClass(v) ==
  IF BadInput(v) THEN Throw(MsgInputCamel)
  ELSE IF BadDelims(v, DelimsKebab) THEN Throw(MsgDelimsCamel)
  ELSE IF IsCamel(v.chars) THEN Return(v)
  ELSE Return(Str(CamelWords(v.chars)))

CaseConverter_camelCase(v) ==
  IF BadInput(v) THEN Throw(MsgInputCamel)
  ELSE IF BadDelims(v, DelimsBasic) THEN Throw(MsgDelimsCamel)
  ELSE IF IsCamel(v.chars) THEN Return(v)
  ELSE Return(Str(CamelWords(v.chars)))

CaseConverter_kebabCase(v, o) ==
  IF BadInput(v) THEN Throw(MsgInputKebab)
  ELSE IF BadDelims(v, DelimsKebab) THEN Throw(MsgDelimsKebab)
  ELSE IF TypeOf(SeparatorOf(o)) # "string" \/ Len(SeparatorOf(o).chars) # 1
    THEN Throw(MsgSeparatorOption)
  ELSE IF CaseOf(o) \notin {"lower", "upper", "title"} THEN Throw(MsgCaseOption)
  ELSE Return(Str(ApplyCase(ReplaceRuns(v.chars, DelimsKebab, SeparatorOf(o).chars),
                            CaseOf(o))))

\* _dotCase without the final toLowerCase()
CaseConverter_dotCaseNoLower(v) ==
  IF BadInput(v) THEN Throw(MsgInputDot)
  ELSE IF BadDelims(v, DelimsBasic) THEN Throw(MsgDelimsDot)
  ELSE Return(Str(ReplaceRuns(v.chars, DelimsBasic, <<".">>)))

CaseConverter_dotCase(v) ==
  IF BadInput(v) THEN Throw(MsgInputDot)
  ELSE IF BadDelims(v, DelimsBasic) THEN Throw(MsgDelimsDot)
  ELSE Return(Str(ToLowerCase(ReplaceRuns(v.chars, DelimsBasic, <<".">>))))

CaseConverter_snakeCase(v) ==
  IF BadInput(v) THEN Throw(MsgInputSnake)
  ELSE IF BadDelims(v, DelimsBasic) THEN Throw(MsgDelimsSnake)
  ELSE Return(Str(ToLowerCase(ReplaceRuns(v.chars, DelimsBasic, <<"_">>))))

\* this.str = <helper>(this.str) storing whatever the helper produced
AssignResultAlways(held, outcome) == outcome.val

\* this.str = <helper>(this.str): the assignment happens only if the helper returns
AssignResult(held, outcome) == IF outcome.threw THEN held ELSE outcome.val

---------------------------------------------------------------------------
\* The state machines

NoCall ==
  [op |-> "none", options |-> [separator |-> Undefined, case |-> "undefined"],
   prev |-> Undefined, prevConverted |-> FALSE, prevKebabed |-> FALSE,
   threw |-> FALSE, msg |-> "", ret |-> "none", retval |-> Undefined]

NoFcall ==
  [fn |-> "none", arg |-> Undefined,
   options |-> [separator |-> Undefined, case |-> "undefined"],
   threw |-> FALSE, msg |-> "", val |-> Undefined]

DefaultOptions == [separator |-> Undefined, case |-> "undefined"]

\* new CaseConverter(str): the constructor stores its argument unchecked
Init ==
  /\ str \in Values
  /\ converted = FALSE
  /\ kebabed = FALSE
  /\ lastCall = NoCall
  /\ fcall = NoFcall

\* one conversion method of the wrapper, with the outcome of its helper
Convert(op, o, outcome) ==
  /\ str' = AssignResult(str, outcome)
  /\ converted' = (converted \/ ~outcome.threw)
  /\ kebabed' = (kebabed \/ (op = "kebabCase" /\ ~outcome.threw))
  /\ lastCall' = [op |-> op, options |-> o, prev |-> str,
                  prevConverted |-> converted, prevKebabed |-> kebabed,
                  threw |-> outcome.threw, msg |-> outcome.msg,
                  ret |-> IF outcome.threw THEN "none" ELSE "this",
                  retval |-> Undefined]
  /\ UNCHANGED fcall

MethodCamelCase == Convert("camelCase", DefaultOptions, CaseConverter_camelCase(str))

MethodKebabCase == \E o \in Options : Convert("kebabCase", o, CaseConverter_kebabCase(str, o))

MethodDotCase == Convert("dotCase", DefaultOptions, CaseConverter_dotCase(str))

MethodSnakeCase == Convert("snakeCase", DefaultOptions, CaseConverter_snakeCase(str))

MethodValue ==
  /\ lastCall' = [op |-> "value", options |-> DefaultOptions, prev |-> str,
                  prevConverted |-> converted, prevKebabed |-> kebabed,
                  threw |-> FALSE, msg |-> "", ret |-> "value", retval |-> str]
  /\ UNCHANGED <<str, converted, kebabed, fcall>>

Next ==
  \/ MethodCamelCase
  \/ MethodKebabCase
  \/ MethodDotCase
  \/ MethodSnakeCase
  \/ MethodValue

Spec == Init /\ [][Next]_vars

\* The standalone functions: Init draws the argument and the options of one
\* call, and each action applies one function to them
FnInit ==
  /\ str = Undefined
  /\ converted = FALSE
  /\ kebabed = FALSE
  /\ lastCall = NoCall
  /\ fcall \in {[NoFcall EXCEPT !.arg = v, !.options = o] : v \in Args, o \in Options}

Called(fn, v, o, outcome) ==
  /\ fcall.fn = "none"
  /\ fcall' = [fn |-> fn, arg |-> v, options |-> o,
               threw |-> outcome.threw, msg |-> outcome.msg, val |-> outcome.val]
  /\ UNCHANGED <<str, converted, kebabed, lastCall>>

CallCamelCase == Called("camelCase", fcall.arg, DefaultOptions, camelCase(fcall.arg))

CallToDotCase == Called("toDotCase", fcall.arg, DefaultOptions, toDotCase(fcall.arg))

CallKebabCase ==
  Called("kebabCase", fcall.arg, fcall.options, kebabCase(fcall.arg, fcall.options))

CallToCamelCase == Called("toCamelCase", fcall.arg, DefaultOptions, toCamelCase(fcall.arg))

FnNext ==
  \/ CallCamelCase
  \/ CallToDotCase
  \/ CallKebabCase
  \/ CallToCamelCase

FnSpec == FnInit /\ [][FnNext]_vars

---------------------------------------------------------------------------
\* Vocabulary of the properties

Conversions == {"camelCase", "kebabCase", "dotCase", "snakeCase"}

ValidOptions(o) ==
  /\ TypeOf(SeparatorOf(o)) = "string"
  /\ Len(SeparatorOf(o).chars) = 1
  /\ CaseOf(o) \in {"lower", "upper", "title"}

\* the kind of the first shared check that value v fails for delimiter set D
FirstFailure(v, D) ==
  IF v.kind # "string" THEN "TypeMismatch"
  ELSE IF Trim(v.chars) = << >> THEN "EmptyInput"
  ELSE IF StartsWithDelim(v.chars, D) THEN "LeadingDelimiter"
  ELSE IF HasDelimRun(v.chars, D) THEN "ConsecutiveDelimiters"
  ELSE "none"

\* the error kind a caller can read off a message; a message used for several
\* kinds, or raised by the runtime, tells the caller none
ReportedKind(m) ==
  CASE m = MsgNotString -> "TypeMismatch"
    [] m = MsgNull -> "MissingValue"
    [] m = MsgEmpty -> "EmptyInput"
    [] m = MsgLeading -> "LeadingDelimiter"
    [] m = MsgConsecutive -> "ConsecutiveDelimiters"
    [] m \in {MsgSeparator, MsgCase, MsgSeparatorOption, MsgCaseOption} -> "InvalidOption"
    [] OTHER -> "Unspecific"

DelimsOfFn(fn) == IF fn = "kebabCase" THEN DelimsKebab ELSE DelimsBasic

HasDelim(s, D) == \E i \in 1..Len(s) : s[i] \in D

---------------------------------------------------------------------------
\* C1: every entry point reports the kind of the first failing shared check
\* (string, not absent, non-empty, no leading delimiter, no delimiter run),
\* and the kinds are distinguishable by the caller.
C1_FirstFailingCheckReported ==
  /\ (lastCall.op \in Conversions
        /\ FirstFailure(lastCall.prev, DelimsOfFn(lastCall.op)) # "none")
     => (lastCall.threw
           /\ ReportedKind(lastCall.msg)
                = FirstFailure(lastCall.prev, DelimsOfFn(lastCall.op)))
  /\ (fcall.fn \in {"camelCase", "toCamelCase", "toDotCase", "kebabCase"}
        /\ ValidOptions(fcall.options)
        /\ FirstFailure(fcall.arg, DelimsOfFn(fcall.fn)) # "none")
     => (fcall.threw
           /\ ReportedKind(fcall.msg) = FirstFailure(fcall.arg, DelimsOfFn(fcall.fn)))

\* C2: null and undefined inputs of camelCase, toDotCase and kebabCase fail
\* with the "cannot be null or undefined" error, not with "must be a string".
C2_NullReportsMissingValue ==
  (fcall.fn \in {"camelCase", "toDotCase", "kebabCase"}
     /\ fcall.arg \in {Null, Undefined})
  => (fcall.threw /\ fcall.msg = MsgNull)

\* C3: kebabCase reports an invalid option only for strings that pass all
\* five string checks; a string that violates one gets the string error.
C3_OptionsCheckedAfterString ==
  /\ (fcall.fn = "kebabCase" /\ FirstFailure(fcall.arg, DelimsKebab) # "none")
     => (fcall.threw /\ ReportedKind(fcall.msg) # "InvalidOption")
  /\ (lastCall.op = "kebabCase" /\ FirstFailure(lastCall.prev, DelimsKebab) # "none")
     => (lastCall.threw /\ ReportedKind(lastCall.msg) # "InvalidOption")

\* C4: a conversion that fails leaves the held string exactly as it was before
\* the call, and value() returns the held string without changing it.
C4_FailureKeepsHeldValue ==
  /\ (lastCall.op \in Conversions /\ lastCall.threw) => str = lastCall.prev
  /\ lastCall.op = "value" => (lastCall.retval = lastCall.prev /\ str = lastCall.prev)

\* a call failed after an earlier conversion had replaced the constructor argument
C4_Witness ==
  /\ lastCall.op \in Conversions
  /\ lastCall.threw
  /\ lastCall.prevConverted
  /\ str.kind = "string"

\* the standalone function of refined_prompt.js behind a wrapper method
Standalone(op, v, o) ==
  CASE op = "camelCase" -> camelCase(v)
    [] op = "kebabCase" -> kebabCase(v, o)
    [] op = "dotCase" -> toDotCase(v)

\* C5: a wrapper method fails exactly when the standalone function fails on
\* the held value, on success holds the standalone result and returns the
\* wrapper; value() returns the held value and changes nothing, and before
\* any successful conversion the held value has never changed.
C5_WrapperMatchesStandalone ==
  /\ lastCall.op \in {"camelCase", "kebabCase", "dotCase"}
     => /\ lastCall.threw = Standalone(lastCall.op, lastCall.prev, lastCall.options).threw
        /\ ~lastCall.threw
           => /\ str = Standalone(lastCall.op, lastCall.prev, lastCall.options).val
              /\ lastCall.ret = "this"
  /\ lastCall.op = "value"
     => (lastCall.ret = "value" /\ lastCall.retval = lastCall.prev /\ str = lastCall.prev)
  /\ (~converted /\ lastCall.op # "none") => str = lastCall.prev

\* a kebabCase with explicit options succeeded on a string with an upper-case
\* letter and a delimiter
C5_Witness ==
  /\ lastCall.op = "kebabCase"
  /\ ~lastCall.threw
  /\ lastCall.options.separator = Str(<<"_">>)
  /\ lastCall.options.case = "title"
  /\ HasDelim(lastCall.prev.chars, DelimsKebab)
  /\ \E i \in 1..Len(str.chars) : str.chars[i] \in UpperLetters

\* the words of s joined by sep, a word also ending at each boundary between
\* a lower-case and an upper-case letter
RECURSIVE SplitCamelWords(_, _, _)
SplitCamelWords(s, i, sep) ==
  IF i > Len(s) THEN << >>
  ELSE (IF s[i] \in DelimsKebab THEN sep
        ELSE IF i > 1 /\ s[i - 1] \in LowerLetters /\ s[i] \in UpperLetters
          THEN sep \o <<s[i]>>
        ELSE <<s[i]>>)
       \o SplitCamelWords(s, i + 1, sep)

\* C6: kebabCase separates a camelCase input at each lower-to-upper boundary
\* ("heyThere" with separator '_' gives "hey_there"), in the function and in
\* the wrapper, so camelCase() then kebabCase() recovers the words.
C6_KebabSplitsCamelWords ==
  /\ (fcall.fn = "kebabCase" /\ ~fcall.threw /\ CaseOf(fcall.options) = "lower")
     => fcall.val
          = Str(ToLowerCase(SplitCamelWords(fcall.arg.chars, 1,
                                            SeparatorOf(fcall.options).chars)))
  /\ (lastCall.op = "kebabCase" /\ ~lastCall.threw /\ CaseOf(lastCall.options) = "lower")
     => str = Str(ToLowerCase(SplitCamelWords(lastCall.prev.chars, 1,
                                              SeparatorOf(lastCall.options).chars)))

\* the non-delimiter characters of s in order, lower-cased, except that a
\* character right after a delimiter is upper-cased
RECURSIVE WordsJoined(_, _)
WordsJoined(s, i) ==
  IF i > Len(s) THEN << >>
  ELSE (IF s[i] \in DelimsBasic THEN << >>
        ELSE IF i > 1 /\ s[i - 1] \in DelimsBasic
          THEN <<ToUpperChar(ToLowerChar(s[i]))>>
        ELSE <<ToLowerChar(s[i])>>)
       \o WordsJoined(s, i + 1)

\* C7 (as amended): on a valid input camelCase returns the input unchanged if
\* it is one lower-case letter followed by letters only; otherwise the result
\* is the words split at delimiter runs, lower-cased, every word but the
\* first capitalised, and joined (which may again be the input).
C7_CamelCaseResult ==
  (fcall.fn = "camelCase" /\ ~fcall.threw)
  => /\ IsCamel(fcall.arg.chars) => fcall.val = fcall.arg
     /\ ~IsCamel(fcall.arg.chars) => fcall.val = Str(WordsJoined(fcall.arg.chars, 1))

\* C7 as stated: in addition, the input is returned unchanged only if it is
\* one lower-case letter followed by letters only.
C7_UnchangedOnlyIfCamel ==
  (fcall.fn = "camelCase" /\ ~fcall.threw)
  => /\ IsCamel(fcall.arg.chars) <=> fcall.val = fcall.arg
     /\ ~IsCamel(fcall.arg.chars) => fcall.val = Str(WordsJoined(fcall.arg.chars, 1))

\* camelCase took the early return on a mixed-case word, and elsewhere
\* converted a two-word input
C7_Witness ==
  /\ fcall.fn = "camelCase"
  /\ ~fcall.threw
  /\ \/ fcall.arg = Str(<<"a", "B">>)
     \/ (fcall.arg = Str(<<"B", "_", "a">>) /\ fcall.val = Str(<<"b", "A">>))

\* what the case policy makes of one separator character
CasedSeparators(c, caseOption) ==
  CASE caseOption = "lower" -> {ToLowerChar(c)}
    [] caseOption = "upper" -> {ToUpperChar(c)}
    [] OTHER -> {c, ToUpperChar(c)}

\* C8 (as amended): the result of kebabCase holds no delimiter other than the
\* separator, keeps every other character up to its case, and has in place
\* of each delimiter run exactly one character: the separator as the case
\* policy leaves it (the separator itself unless it is a letter).
C8_SeparatorSubstitution ==
  (fcall.fn = "kebabCase" /\ ~fcall.threw)
  => LET sep == SeparatorOf(fcall.options).chars[1]
         s == fcall.arg.chars
         r == fcall.val.chars
     IN /\ \A i \in 1..Len(r) : r[i] \in DelimsKebab => r[i] = sep
        /\ Len(r) = Len(s)
        /\ \A i \in 1..Len(s) :
             IF s[i] \in DelimsKebab
             THEN r[i] \in CasedSeparators(sep, CaseOf(fcall.options))
             ELSE ToLowerChar(r[i]) = ToLowerChar(s[i])

\* C8 as stated: each delimiter run is replaced by exactly one occurrence of
\* the separator itself, under every case policy.
C8_RunBecomesSeparator ==
  (fcall.fn = "kebabCase" /\ ~fcall.threw)
  => LET sep == SeparatorOf(fcall.options).chars[1]
         s == fcall.arg.chars
         r == fcall.val.chars
     IN /\ \A i \in 1..Len(r) : r[i] \in DelimsKebab => r[i] = sep
        /\ Len(r) = Len(s)
        /\ \A i \in 1..Len(s) :
             IF s[i] \in DelimsKebab
             THEN r[i] = sep
             ELSE ToLowerChar(r[i]) = ToLowerChar(s[i])

\* kebabCase replaced a dot and a hyphen by a separator that is itself a
\* delimiter, under the title policy
C8_Witness ==
  /\ fcall.fn = "kebabCase"
  /\ ~fcall.threw
  /\ fcall.arg = Str(<<"a", ".", "B", "-">>)
  /\ fcall.options = [separator |-> Str(<<" ">>), case |-> "title"]
  /\ fcall.val = Str(<<"A", " ", "B", " ">>)

\* title case over maximal alphanumeric words: a word starts at the start of
\* the string or right after a character that is no letter and no digit
RECURSIVE TitleAlnumFrom(_, _)
TitleAlnumFrom(s, i) ==
  IF i > Len(s) THEN << >>
  ELSE (IF s[i] \in (Letters \cup Digits) /\ (i = 1 \/ s[i - 1] \notin (Letters \cup Digits))
        THEN <<ToUpperChar(s[i])>> ELSE <<s[i]>>)
       \o TitleAlnumFrom(s, i + 1)

\* C9: with case 'title' kebabCase upper-cases the first letter of every
\* maximal alphanumeric word of the collapsed string, also after an
\* underscore separator, and leaves the other characters as collapsed.
C9_TitleCaseEveryWord ==
  (fcall.fn = "kebabCase" /\ ~fcall.threw /\ CaseOf(fcall.options) = "title")
  => fcall.val
       = Str(TitleAlnumFrom(ReplaceRuns(fcall.arg.chars, DelimsKebab,
                                        SeparatorOf(fcall.options).chars), 1))

\* C10 as stated: once a conversion has succeeded, every later conversion
\* (kebabCase with valid options) succeeds.
C10_EveryLaterConversionSucceeds ==
  (lastCall.op \in Conversions /\ lastCall.prevConverted /\ ValidOptions(lastCall.options))
  => ~lastCall.threw

\* C10 (as amended): once a conversion has succeeded, every later camelCase,
\* dotCase and snakeCase succeeds; once a kebabCase has succeeded, every
\* later conversion, kebabCase with valid options included, succeeds.
C10_LaterConversionsSucceed ==
  /\ (lastCall.op \in {"camelCase", "dotCase", "snakeCase"} /\ lastCall.prevConverted)
     => ~lastCall.threw
  /\ (lastCall.op \in Conversions /\ lastCall.prevKebabed /\ ValidOptions(lastCall.options))
     => ~lastCall.threw

\* a camelCase succeeded on a dotted string left by an earlier conversion that
\* was not a kebabCase
C10_Witness ==
  /\ lastCall.op = "camelCase"
  /\ ~lastCall.threw
  /\ lastCall.prevConverted
  /\ ~lastCall.prevKebabed
  /\ HasDelim(lastCall.prev.chars, {"."})
  /\ HasDelim(lastCall.prev.chars, DelimsBasic)

====
